---- MODULE Spec2Model ----
(***************************************************************************)
(* Admission layer of the trading system: core/market_streamer.py          *)
(* (on_message and the module-level state it mutates), with the gates of   *)
(* StrategyEngine.evaluate that decide whether an instrument is evaluated. *)
(* Scores are in hundredths (7.5 is 750).                                  *)
(***************************************************************************)
EXTENDS Integers, Sequences, FiniteSets, Bags, TLC

(* ------------------------------ bounds --------------------------------- *)
NumInst == 4
NumCold == 1
MaxDate == 2
NumBars == 2
SlopeWindow == 3
WindowLen == 2
MaxVolumeSum == 3
MaxLen == 2
MaxFeed == 2

(* ------------------------- program constants --------------------------- *)
MAX_TRADES_PER_DAY == 5
MAX_CONCURRENT_TRADES == 3
MIN_EXECUTION_SCORE == 750

VARIABLES
  INSTRUMENT_LIST,  \* the subscribed universe, loaded once at import
  now,              \* wall clock read by the latest on_message (start time at first)
  feed_bar,         \* identity of the latest closed bar the feed carries
  scanner,          \* MarketScanner: instrument -> rolling series of bars
  signals_today,    \* date -> set of instrument keys admitted on that date
  open_positions,   \* set of instrument keys
  positions,        \* positions the execution collaborator holds open
  entry_log,        \* history: bag of handle_entry calls [date, inst, bar]
  last,             \* history: what the latest on_message did
  call,             \* arguments of the strategy function under analysis
  ret,              \* what its latest invocation returned
  prev,             \* what the invocation before the latest returned
  calc              \* a VWAPCalculator object

vars == <<INSTRUMENT_LIST, now, feed_bar, scanner, signals_today,
          open_positions, positions, entry_log, last, call, ret, prev, calc>>

\* the state of core/market_streamer.py
streamer_vars == <<INSTRUMENT_LIST, feed_bar, scanner, signals_today,
                   open_positions, positions, entry_log, last>>

(* ------------------------------ clock ---------------------------------- *)
ClockSlots ==
  { <<9, 29>>, <<9, 30>>, <<12, 0>>, <<13, 59>>, <<15, 0>> }

Times ==
  { [date |-> d, hour |-> s[1], minute |-> s[2]] : d \in 1..MaxDate, s \in ClockSlots }

(* ------------------------- on_message: filters ------------------------- *)
\* the closing-hour test left out
SessionFilteredNoClose(hour, minute) ==
  \/ (hour = 9 /\ minute < 30)
  \/ (12 <= hour /\ hour <= 13)

SessionFiltered(hour, minute) ==
  \/ (hour = 9 /\ minute < 30)
  \/ (12 <= hour /\ hour <= 13)
  \/ hour >= 15

EnsureToday(ledger, today) ==
  IF today \in DOMAIN ledger THEN ledger ELSE (today :> {}) @@ ledger

DailyLimitReached(signalled) == Cardinality(signalled) >= MAX_TRADES_PER_DAY

\* > written for >=
ConcurrentLimitOffByOne(open) == Cardinality(open) > MAX_CONCURRENT_TRADES

ConcurrentLimitReached(open) == Cardinality(open) >= MAX_CONCURRENT_TRADES

(* ----------------------- decision results ------------------------------ *)
None == [state |-> "None", score |-> 0, direction |-> "None"]

StateName(prefix, direction) ==
  CASE prefix = "EXECUTE" /\ direction = "LONG" -> "EXECUTE_LONG"
    [] prefix = "EXECUTE" /\ direction = "SHORT" -> "EXECUTE_SHORT"
    [] prefix = "PREPARE" /\ direction = "LONG" -> "PREPARE_LONG"
    [] prefix = "PREPARE" /\ direction = "SHORT" -> "PREPARE_SHORT"

\* the lower band of the other calibration: PREPARE from 5.0
FinalDecisionLowBand(score, direction) ==
  LET state == IF score >= 750 THEN StateName("EXECUTE", direction)
               ELSE IF score >= 500 THEN StateName("PREPARE", direction)
               ELSE "IGNORE"
  IN [state |-> state, score |-> score,
      direction |-> IF state # "IGNORE" THEN direction ELSE "None"]

\* the classification that ends final_trade_decision
FinalDecision(score, direction) ==
  LET state == IF score >= 750 THEN StateName("EXECUTE", direction)
               ELSE IF score >= 600 THEN StateName("PREPARE", direction)
               ELSE "IGNORE"
  IN [state |-> state, score |-> score,
      direction |-> IF state # "IGNORE" THEN direction ELSE "None"]

\* what the pipeline behind the gates of evaluate can hand back
PipelineOutcomes ==
  {None} \cup { FinalDecision(p[1], p[2]) :
                  p \in { <<600, "LONG">>, <<750, "LONG">>, <<900, "SHORT">> } }

StartsWithExecute(state) == state \in {"EXECUTE_LONG", "EXECUTE_SHORT"}

(* ------------------------- rolling store ------------------------------- *)
\* MarketScanner.update: append, the oldest bar evicted beyond max_len
ScannerUpdate(series, bar) ==
  LET s == Append(series, bar)
  IN IF Len(s) > MaxLen THEN Tail(s) ELSE s

has_enough_data(series, min_bars) == Len(series) >= min_bars

\* min_bars of evaluate, scaled to the modelled window
MinBars == MaxLen

(* ------------------------ StrategyEngine.evaluate ---------------------- *)
EvaluateTimeFiltered(hour, minute) ==
  \/ (hour = 9 /\ minute < 30)
  \/ (12 <= hour /\ hour <= 13)

\* outcome: what the gates and detectors behind the data check return
evaluate(series, t, outcome) ==
  IF EvaluateTimeFiltered(t.hour, t.minute) THEN None
  ELSE IF ~has_enough_data(series, MinBars) THEN None
  ELSE outcome

(* ----------------------------- the feed -------------------------------- *)
IsNumeric(s) == s # "none"

\* the bar checks of lines 108-119 left out
BarUsableUnchecked(ohlc) == TRUE

\* ohlc is non-empty and float() accepts high, low, close and vol of its last bar
BarUsable(ohlc) == ohlc = "ok"

FeedEntries(i) ==
  { [inst |-> i, ltp |-> "none", ohlc |-> "none", outcome |-> None] }
  \cup { [inst |-> i, ltp |-> "100", ohlc |-> o, outcome |-> None] : o \in {"none", "bad"} }
  \cup { [inst |-> i, ltp |-> "100", ohlc |-> "ok", outcome |-> r] : r \in PipelineOutcomes }

\* message["feeds"]: a dict, here in ascending key order, of at most n entries
RECURSIVE FeedsFrom(_, _, _)
FeedsFrom(universe, lo, n) ==
  {<<>>} \cup
  (IF n = 0 THEN {}
   ELSE UNION { { <<e>> \o rest : e \in FeedEntries(i),
                                  rest \in FeedsFrom(universe, i + 1, n - 1) } :
                i \in { j \in universe : j >= lo } })

ColdFeeds == FeedsFrom(1..NumCold, 1, MaxFeed)

WarmFeeds == FeedsFrom(1..NumInst, 1, MaxFeed)

Feeds(universe) == IF universe = 1..NumCold THEN ColdFeeds ELSE WarmFeeds

(* ------------------------ on_message: scan loop ------------------------ *)
\* the ledger test left out
AlreadySignalledIgnored(inst, signalled) == FALSE

AlreadySignalled(inst, signalled) == inst \in signalled

ScanOne(e, t, bar, signalled, acc) ==
  IF ~IsNumeric(e.ltp) THEN acc
  ELSE
    LET priced == [acc EXCEPT !.current_prices = @ \cup {e.inst}]
    IN IF ~BarUsable(e.ohlc) THEN priced
       ELSE
         LET series == ScannerUpdate(priced.scanner[e.inst], bar)
             decision == evaluate(series, t, e.outcome)
             updated == [priced EXCEPT !.scanner[e.inst] = series,
                                       !.evaluated = @ \cup {e.inst}]
         IN IF decision = None THEN updated
            ELSE IF ~StartsWithExecute(decision.state) THEN updated
            ELSE
              LET signal == [updated EXCEPT !.executes = @ \cup {e.inst}]
              IN IF AlreadySignalled(e.inst, signalled) THEN signal
                 ELSE IF decision.score < MIN_EXECUTION_SCORE THEN signal
                 ELSE [signal EXCEPT !.candidates =
                         Append(@, [inst |-> e.inst, score |-> decision.score])]

RECURSIVE ScanLoop(_, _, _, _, _, _, _)
ScanLoop(feeds, k, t, bar, signalled, open, acc) ==
  IF k > Len(feeds) THEN acc
  ELSE IF ConcurrentLimitReached(open) THEN acc
  ELSE ScanLoop(feeds, k + 1, t, bar, signalled, open,
                ScanOne(feeds[k], t, bar, signalled, acc))

(* ------------------- on_message: prioritise and admit ------------------ *)
RECURSIVE InsertByScore(_, _)
InsertByScore(c, sorted) ==
  IF sorted = <<>> THEN <<c>>
  ELSE IF Head(sorted).score >= c.score
       THEN <<Head(sorted)>> \o InsertByScore(c, Tail(sorted))
       ELSE <<c>> \o sorted

RECURSIVE SortFrom(_, _, _)
SortFrom(cands, k, sorted) ==
  IF k > Len(cands) THEN sorted
  ELSE SortFrom(cands, k + 1, InsertByScore(cands[k], sorted))

\* the sort left out: candidates stay in feed order
SortCandidatesUnsorted(cands) == cands

\* candidate_signals.sort(key=score, reverse=True): stable, descending
SortCandidates(cands) == SortFrom(cands, 1, <<>>)

\* the admission is not written to the ledger
RecordSignalForgotten(signalled, inst) == signalled

\* signals_today[today].add(inst_key)
RecordSignal(signalled, inst) == signalled \cup {inst}

RECURSIVE AdmitLoop(_, _, _)
AdmitLoop(sorted, k, acc) ==
  IF k > Len(sorted) THEN acc
  ELSE IF DailyLimitReached(acc.signalled) THEN acc
  ELSE IF ConcurrentLimitReached(acc.open) THEN acc
  ELSE AdmitLoop(sorted, k + 1,
                 [signalled |-> RecordSignal(acc.signalled, sorted[k].inst),
                  open |-> acc.open \cup {sorted[k].inst},
                  entries |-> Append(acc.entries, sorted[k].inst)])

(* --------------------- execution collaborator -------------------------- *)
\* handle_exits closes none or one of the positions held
ExitChoices(held) == {{}} \cup { {i} : i \in held }

RECURSIVE SeqToSet(_)
SeqToSet(s) == IF s = <<>> THEN {} ELSE {Head(s)} \cup SeqToSet(Tail(s))

(* ------------------------------ on_message ----------------------------- *)
\* nothing handled yet
Idle ==
  [handled |-> FALSE, exits |-> 0, evaluated |-> {}, executes |-> {},
   candidates |-> <<>>, entries |-> <<>>, current_prices |-> {},
   feed_keys |-> {}, malformed |-> {}, ltp_parsed |-> {}]

\* an early return of on_message
Returned == [Idle EXCEPT !.handled = TRUE]

OnMessage ==
  \E t \in { u \in Times : u.date >= now.date } :
  \E bar \in { b \in 1..NumBars : b >= feed_bar /\ b <= feed_bar + 1 } :
    /\ now' = t
    /\ feed_bar' = bar
    /\ UNCHANGED <<INSTRUMENT_LIST, call, ret, prev, calc>>
    /\ IF SessionFiltered(t.hour, t.minute)
       THEN /\ last' = Returned
            /\ UNCHANGED <<scanner, signals_today, open_positions, positions, entry_log>>
       ELSE
         LET today == t.date
             ledger == EnsureToday(signals_today, today)
         IN IF DailyLimitReached(ledger[today])
            THEN /\ signals_today' = ledger
                 /\ last' = Returned
                 /\ UNCHANGED <<scanner, open_positions, positions, entry_log>>
            ELSE
              \E feeds \in Feeds(INSTRUMENT_LIST) :
              \E scan \in { ScanLoop(feeds, 1, t, bar, ledger[today], open_positions,
                                     [current_prices |-> {}, candidates |-> <<>>,
                                      scanner |-> scanner, evaluated |-> {},
                                      executes |-> {}]) } :
              \E adm \in { AdmitLoop(SortCandidates(scan.candidates), 1,
                                     [signalled |-> ledger[today],
                                      open |-> open_positions, entries |-> <<>>]) } :
              \E entered \in { SeqToSet(adm.entries) } :
              \E closed \in ExitChoices(positions \cup entered) :
                /\ scanner' = scan.scanner
                /\ signals_today' = [ledger EXCEPT ![today] = adm.signalled]
                /\ open_positions' = adm.open
                /\ positions' = (positions \cup entered) \ closed
                /\ entry_log' = entry_log (+)
                      SetToBag({ [date |-> today, inst |-> i, bar |-> bar] :
                                   i \in entered })
                /\ last' = [handled |-> TRUE, exits |-> 1,
                            evaluated |-> scan.evaluated, executes |-> scan.executes,
                            candidates |-> scan.candidates, entries |-> adm.entries,
                            current_prices |-> scan.current_prices,
                            feed_keys |-> { feeds[k].inst : k \in 1..Len(feeds) },
                            malformed |-> { feeds[k].inst : k \in
                                              { j \in 1..Len(feeds) :
                                                  \/ feeds[j].ltp = "none"
                                                  \/ feeds[j].ohlc # "ok" } },
                            ltp_parsed |-> { feeds[k].inst : k \in
                                               { j \in 1..Len(feeds) :
                                                   IsNumeric(feeds[j].ltp) } }]

(* --------------------------- specifications ---------------------------- *)
StartClock == [date |-> 1, hour |-> 9, minute |-> 29]

(* ------------------------ vwap_filter.VWAPCalculator -------------------- *)
\* Prices and volumes are integers; a VWAP is the fraction num/den of the two
\* accumulators. An optional value is a set: {} for None, {v} for v.
Val(x) == CHOOSE v \in x : TRUE

RECURSIVE SumSeq(_)
SumSeq(q) == IF q = <<>> THEN 0 ELSE Head(q) + SumSeq(Tail(q))

\* deque(maxlen=n).append
DequeAppend(q, x, n) ==
  LET r == Append(q, x) IN IF Len(r) > n THEN Tail(r) ELSE r

\* VWAPCalculator(window, slope_window=SlopeWindow): window 0 stands for None
VWAPCalculator(window) ==
  [window |-> window, price_volume_sum |-> 0, volume_sum |-> 0,
   vwap_history |-> <<>>, price_volume_deque |-> <<>>, volume_deque |-> <<>>]

\* no strategy function under analysis
NoCall == [fn |-> "none"]

NoResult == [state |-> "none"]

Init ==
  /\ call = NoCall
  /\ ret = NoResult
  /\ prev = NoResult
  /\ calc = VWAPCalculator(0)
  /\ INSTRUMENT_LIST = 1..NumCold
  /\ now = StartClock
  /\ feed_bar = 1
  /\ scanner = [i \in 1..NumCold |-> <<>>]
  /\ signals_today = <<>>
  /\ open_positions = {}
  /\ positions = {}
  /\ entry_log = EmptyBag
  /\ last = Idle

\* start_system: an exception out of start_market_streamer is caught, and
\* after the back-off start_market_streamer is called again in the same
\* process; it builds a new streamer and registers on_message anew, while the
\* module-level objects of core/market_streamer.py are the ones built at import
Restart ==
  /\ last' = Idle
  /\ UNCHANGED <<INSTRUMENT_LIST, now, feed_bar, scanner, signals_today,
                 open_positions, positions, entry_log, call, ret, prev, calc>>

Next == OnMessage \/ Restart

Spec == Init /\ [][Next]_vars

\* A session under way over the whole universe on the last modelled date:
\* every rolling window is full of the current bar and the latest batch, an
\* empty one, admitted nothing.
WarmClock == [date |-> MaxDate, hour |-> 9, minute |-> 30]

InitWarm ==
  /\ call = NoCall
  /\ ret = NoResult
  /\ prev = NoResult
  /\ calc = VWAPCalculator(0)
  /\ INSTRUMENT_LIST = 1..NumInst
  /\ now = WarmClock
  /\ feed_bar = NumBars
  /\ scanner = [i \in 1..NumInst |-> [k \in 1..MaxLen |-> NumBars]]
  /\ signals_today = (MaxDate :> {})
  /\ open_positions = {}
  /\ positions = {}
  /\ entry_log = EmptyBag
  /\ last = [Returned EXCEPT !.exits = 1]

SpecWarm == InitWarm /\ [][Next]_vars

(* ------------------- decision_engine.final_trade_decision --------------- *)
\* Component scores are in ten-thousandths (3.5 is 35000); the final score,
\* rounded to two decimals, is in hundredths as in FinalDecision.

\* pullback_signal is None (or an empty dict)
PullbackNone == [signal |-> "None", direction |-> "None"]

\* what detect_pullback_signal hands over
PullbackSignals ==
  { PullbackNone,
    [signal |-> "POTENTIAL", direction |-> "LONG"],
    [signal |-> "CONFIRMED", direction |-> "LONG"],
    [signal |-> "CONFIRMED", direction |-> "SHORT"] }

HtfDirections == {"BULLISH", "BEARISH"}

Regimes == {"TRENDING", "RANGING"}

\* contexts VWAPCalculator.get_context returns
VwapContexts ==
  { [acceptance |-> "ABOVE", score |-> 18000],
    [acceptance |-> "BELOW", score |-> -18000],
    [acceptance |-> "ABOVE", score |-> -8000] }

\* scores analyze_volume returns
VolumeScores == {7000, 14000, 20000}

\* contexts of analyze_volatility
VolatilityContexts ==
  { [state |-> "NORMAL", score |-> 0],
    [state |-> "EXPANDING", score |-> 0],
    [state |-> "EXPANDING", score |-> 10000] }

\* contexts of analyze_liquidity
LiquidityContexts ==
  { [level |-> "ILLIQUID", score |-> -20000],
    [level |-> "NORMAL", score |-> -10000],
    [level |-> "HIGH", score |-> 10000] }

\* scores of price_action_context, within [-1, 1]
PriceActionScores == {-5000, 1000, 8000}

\* scores of sr_location_score, within [-1.2, 1.2]
SrScores == {-12000, 0, 12000}

DecisionInputs ==
  [pullback_signal : PullbackSignals, htf_bias_direction : HtfDirections,
   market_regime : Regimes, vwap_ctx : VwapContexts, vol_ctx : VolumeScores,
   volat_ctx : VolatilityContexts, liq_ctx : LiquidityContexts,
   pa_ctx : PriceActionScores, sr_score : SrScores]

Abs(x) == IF x < 0 THEN -x ELSE x

\* a gate abort: DecisionResult("IGNORE", 0.0, None, {}, reason)
GateAbort(reason) ==
  [state |-> "IGNORE", score |-> 0, direction |-> "None",
   components |-> <<>>, reason |-> reason]

\* the clamp left out
ClampScoreUnbounded(score) == score

\* max(min(score, 10.0), 0.0)
ClampScore(score) ==
  IF score > 100000 THEN 100000 ELSE IF score < 0 THEN 0 ELSE score

\* round(x, 2) of a non-negative score: ten-thousandths to hundredths, ties to even
Round2(x) ==
  LET q == x \div 100
      r == x % 100
  IN IF r > 50 THEN q + 1
     ELSE IF r < 50 THEN q
     ELSE IF q % 2 = 0 THEN q ELSE q + 1

DecisionReason(state) ==
  IF state \in {"EXECUTE_LONG", "EXECUTE_SHORT"} THEN "institutional continuation trade"
  ELSE IF state \in {"PREPARE_LONG", "PREPARE_SHORT"} THEN "developing strong setup"
  ELSE "edge insufficient"

\* the cutoff an hour later
LateSessionPenaltyFrom13(hour) == IF hour >= 13 THEN -10000 ELSE 0

\* now = datetime.now(); if now.hour >= 12: score -= 1.0
LateSessionPenalty(hour) == IF hour >= 12 THEN -10000 ELSE 0

final_trade_decision(a, hour) ==
  LET direction == a.pullback_signal.direction
  IN IF a.pullback_signal = PullbackNone THEN GateAbort("no pullback setup")
     ELSE IF a.pullback_signal.signal # "CONFIRMED"
       THEN GateAbort("not confirmed pullback")
     ELSE IF direction = "LONG" /\ a.htf_bias_direction # "BULLISH"
       THEN GateAbort("htf not bullish")
     ELSE IF direction = "SHORT" /\ a.htf_bias_direction # "BEARISH"
       THEN GateAbort("htf not bearish")
     ELSE IF a.market_regime # "TRENDING"
       THEN GateAbort("only trade trending regime")
     ELSE IF direction = "LONG"
             /\ (a.vwap_ctx.acceptance # "ABOVE" \/ a.vwap_ctx.score < 10000)
       THEN GateAbort("weak VWAP structure")
     ELSE IF direction = "SHORT"
             /\ (a.vwap_ctx.acceptance # "BELOW" \/ a.vwap_ctx.score > -10000)
       THEN GateAbort("weak VWAP structure")
     ELSE IF a.vol_ctx < 10000 THEN GateAbort("insufficient volume")
     ELSE IF a.volat_ctx.state # "EXPANDING"
       THEN GateAbort("volatility not expanding")
     ELSE IF a.liq_ctx.level \in {"LOW", "ILLIQUID"} THEN GateAbort("low liquidity")
     ELSE IF Abs(a.pa_ctx) < 1500 THEN GateAbort("weak price action")
     ELSE
       LET late == LateSessionPenalty(hour)
           gates == ("structure" :> 35000) @@ ("htf" :> 20000) @@ ("regime" :> 15000)
                    @@ ("vwap" :> Abs(a.vwap_ctx.score)) @@ ("volume" :> a.vol_ctx)
                    @@ ("volatility" :> a.volat_ctx.score)
                    @@ ("liquidity" :> a.liq_ctx.score)
                    @@ ("price_action" :> a.pa_ctx) @@ ("sr" :> a.sr_score)
           components == IF late # 0 THEN gates @@ ("late_session_penalty" :> late)
                         ELSE gates
           sum == 35000 + 20000 + 15000 + Abs(a.vwap_ctx.score) + a.vol_ctx
                  + a.volat_ctx.score + a.liq_ctx.score + a.pa_ctx
                  + (a.sr_score * 3) \div 2 + late
           score == Round2(ClampScore(sum))
           final == FinalDecision(score, direction)
       IN [state |-> final.state, score |-> final.score,
           direction |-> final.direction, components |-> components,
           reason |-> DecisionReason(final.state)]

\* one invocation of final_trade_decision on the arguments drawn at the start
Decide ==
  /\ call.fn = "final_trade_decision"
  /\ \E t \in { u \in Times : u.date >= now.date } :
       /\ now' = t
       /\ ret' = final_trade_decision(call.args, t.hour)
  /\ prev' = ret
  /\ UNCHANGED <<call, calc, streamer_vars>>

InitDecision ==
  /\ \E a \in DecisionInputs : call = [fn |-> "final_trade_decision", args |-> a]
  /\ ret = NoResult
  /\ prev = NoResult
  /\ calc = VWAPCalculator(0)
  /\ now = StartClock
  /\ INSTRUMENT_LIST = 1..NumCold
  /\ feed_bar = 1
  /\ scanner = [i \in 1..NumCold |-> <<>>]
  /\ signals_today = <<>>
  /\ open_positions = {}
  /\ positions = {}
  /\ entry_log = EmptyBag
  /\ last = Idle

NextDecision == Decide

SpecDecision == InitDecision /\ [][NextDecision]_vars

(* ------------------- vwap_filter.VWAPCalculator methods ----------------- *)
\* the volume sign test left out
UpdateRejectedNoSign(price, volume) == price = {} \/ volume = {}

\* if price is None or volume is None or volume <= 0: return None
UpdateRejected(price, volume) ==
  price = {} \/ volume = {} \/ Val(volume) <= 0

\* VWAPCalculator.update: [calc |-> the object afterwards, value |-> returned]
update(c, price, volume) ==
  IF UpdateRejected(price, volume) THEN [calc |-> c, value |-> {}]
  ELSE
    LET pv == Val(price) * Val(volume)
        pvd == DequeAppend(c.price_volume_deque, pv, c.window)
        vd == DequeAppend(c.volume_deque, Val(volume), c.window)
        summed == IF c.window # 0
                  THEN [c EXCEPT !.price_volume_deque = pvd, !.volume_deque = vd,
                                 !.price_volume_sum = SumSeq(pvd),
                                 !.volume_sum = SumSeq(vd)]
                  ELSE [c EXCEPT !.price_volume_sum = @ + pv,
                                 !.volume_sum = @ + Val(volume)]
        vwap == [num |-> summed.price_volume_sum, den |-> summed.volume_sum]
    IN IF summed.volume_sum <= 0 THEN [calc |-> summed, value |-> {}]
       ELSE [calc |-> [summed EXCEPT !.vwap_history =
                                        DequeAppend(@, vwap, SlopeWindow)],
             value |-> {vwap}]

\* sign of vwap_history[-1] - vwap_history[0], 0 with fewer than two samples
SlopeSign(h) ==
  IF Len(h) >= 2
  THEN LET d == h[Len(h)].num * h[1].den - h[1].num * h[Len(h)].den
       IN IF d > 0 THEN 1 ELSE IF d < 0 THEN -1 ELSE 0
  ELSE 0

\* how the float distance_pct = (price - vwap) / vwap * 100.0 compares with
\* the float literal bound/100 (bound = 35 or -35). Where price lies exactly
\* 0.35% from vwap the quotient is the double nearest 0.0035, its product
\* with 100.0 is 0.35000000000000003, and the literal 0.35 is the double
\* 0.34999999999999997: the computed distance lies outside the literal.
DistanceVs(c, price, bound) ==
  LET scaled == (price * c.volume_sum - c.price_volume_sum) * 10000
      limit == bound * c.price_volume_sum
  IN IF scaled > limit THEN 1
     ELSE IF scaled < limit THEN -1
     ELSE IF bound > 0 THEN 1 ELSE -1

\* if distance_pct > 0.35: ABOVE; elif distance_pct < -0.35: BELOW; else NEAR
Acceptance(c, price) ==
  IF DistanceVs(c, price, 35) > 0 THEN "ABOVE"
  ELSE IF DistanceVs(c, price, -35) < 0 THEN "BELOW"
  ELSE "NEAR"

\* max(min(score, 2.0), -2.0)
ClampVwapScore(score) ==
  IF score > 20000 THEN 20000 ELSE IF score < -20000 THEN -20000 ELSE score

\* VWAPCalculator.get_context
get_context(c, price) ==
  IF c.volume_sum <= 0 \/ price = {}
  THEN [vwap_defined |-> FALSE, acceptance |-> "NEAR", pressure |-> "NEUTRAL",
        score |-> 0, comment |-> "VWAP unavailable"]
  ELSE
    LET acceptance == Acceptance(c, Val(price))
        slope == SlopeSign(c.vwap_history)
        verdict ==
          IF acceptance = "ABOVE" /\ slope > 0
            THEN <<"BUYING", 18000, "strong_acceptance_above_vwap">>
          ELSE IF acceptance = "BELOW" /\ slope < 0
            THEN <<"SELLING", -18000, "strong_acceptance_below_vwap">>
          ELSE IF acceptance \in {"ABOVE", "BELOW"}
            THEN <<"NEUTRAL", -8000, "distance_without_slope">>
          ELSE <<"NEUTRAL", -10000, "near_vwap_magnet_zone">>
    IN [vwap_defined |-> TRUE, acceptance |-> acceptance, pressure |-> verdict[1],
        score |-> ClampVwapScore(verdict[2]), comment |-> verdict[3]]

\* prices handed to update
TradePrices == { {}, {1992}, {2008} }

\* prices handed to get_context; 1993 and 2007 lie 0.35% from 2000
VwapPrices == { {}, {1992}, {1993}, {2000}, {2007}, {2008} }

VwapVolumes == { {}, {-1}, {0}, {1}, {2} }

VwapUpdate ==
  /\ call.fn \in {"VWAPCalculator", "update", "get_context"}
  /\ \E price \in TradePrices : \E volume \in VwapVolumes :
       /\ (~UpdateRejected(price, volume) /\ calc.window = 0)
            => calc.volume_sum + Val(volume) <= MaxVolumeSum
       /\ call' = [fn |-> "update", args |-> [price |-> price, volume |-> volume]]
       /\ calc' = update(calc, price, volume).calc
       /\ ret' = [value |-> update(calc, price, volume).value]
  /\ UNCHANGED <<now, prev, streamer_vars>>

VwapGetContext ==
  /\ call.fn \in {"VWAPCalculator", "update", "get_context"}
  /\ \E price \in VwapPrices :
       /\ call' = [fn |-> "get_context", args |-> [price |-> price]]
       /\ ret' = get_context(calc, price)
  /\ UNCHANGED <<calc, now, prev, streamer_vars>>

InitVwap ==
  /\ call = [fn |-> "VWAPCalculator"]
  /\ \E window \in {0, WindowLen} : calc = VWAPCalculator(window)
  /\ ret = NoResult
  /\ prev = NoResult
  /\ now = StartClock
  /\ INSTRUMENT_LIST = 1..NumCold
  /\ feed_bar = 1
  /\ scanner = [i \in 1..NumCold |-> <<>>]
  /\ signals_today = <<>>
  /\ open_positions = {}
  /\ positions = {}
  /\ entry_log = EmptyBag
  /\ last = Idle

NextVwap == VwapUpdate \/ VwapGetContext

SpecVwap == InitVwap /\ [][NextVwap]_vars

(* ---------------- StrategyEngine.evaluate: the VWAP stage --------------- *)
\* what analyze_mtf reports; strength in hundredths
MtfContexts ==
  { [direction |-> "BULLISH", conflict |-> FALSE, confidence |-> "HIGH", strength |-> 150],
    [direction |-> "NEUTRAL", conflict |-> FALSE, confidence |-> "HIGH", strength |-> 150],
    [direction |-> "BEARISH", conflict |-> TRUE, confidence |-> "HIGH", strength |-> 150],
    [direction |-> "BULLISH", conflict |-> FALSE, confidence |-> "LOW", strength |-> 150],
    [direction |-> "BEARISH", conflict |-> FALSE, confidence |-> "MEDIUM", strength |-> 90] }

\* the four MTF gates
MtfRejected(mtf_ctx) ==
  \/ mtf_ctx.direction = "NEUTRAL"
  \/ mtf_ctx.conflict
  \/ mtf_ctx.confidence = "LOW"
  \/ mtf_ctx.strength < 100

\* the regime gate left out
RegimeRejectedNever(regime) == FALSE

\* regime.state != "TRENDING"
RegimeRejected(regime) == regime # "TRENDING"

\* the gate at which evaluate returns before the VWAP stage, "vwap" if none
EvaluateStage(a, t) ==
  IF EvaluateTimeFiltered(t.hour, t.minute) THEN "time"
  ELSE IF ~has_enough_data(a.series, MinBars) THEN "data"
  ELSE IF MtfRejected(a.mtf_ctx) THEN "mtf"
  ELSE IF RegimeRejected(a.regime) THEN "regime"
  ELSE "vwap"

\* evaluate on the instrument's calculator c: the calculator afterwards, the
\* stage reached and the decision; a.outcome is what the HTF, pullback and
\* decision stages behind the VWAP stage hand back
evaluate_instrument(c, a, t) ==
  IF EvaluateStage(a, t) # "vwap"
  THEN [calc |-> c, stage |-> EvaluateStage(a, t), decision |-> None]
  ELSE
    LET updated == update(c, {a.ltp}, {a.volume}).calc
        vwap_ctx == get_context(updated, {a.ltp})
    IN [calc |-> updated, stage |-> "vwap", vwap_ctx |-> vwap_ctx,
        decision |-> a.outcome]

EvaluateInputs ==
  [series : {<<1>>, <<1, 2>>}, mtf_ctx : MtfContexts,
   regime : {"TRENDING", "RANGING"}, ltp : {1992, 2008}, volume : {0, 1},
   outcome : {None}]

\* the clock readings drawn for evaluate: before, inside and at the end of
\* the morning window
EvaluateTimes == { u \in Times : u.date = 1 /\ u.hour <= 12 }

EngineEvaluate ==
  /\ call.fn \in {"StrategyEngine", "evaluate"}
  /\ \E a \in EvaluateInputs : \E t \in EvaluateTimes :
       /\ (EvaluateStage(a, t) = "vwap" /\ ~UpdateRejected({a.ltp}, {a.volume}))
            => calc.volume_sum + a.volume <= MaxVolumeSum
       /\ now' = t
       /\ call' = [fn |-> "evaluate", args |-> a]
       /\ \E r \in {evaluate_instrument(calc, a, t)} :
            /\ calc' = r.calc
            /\ ret' = [stage |-> r.stage, decision |-> r.decision]
  /\ UNCHANGED <<prev, streamer_vars>>

InitEvaluate ==
  /\ call = [fn |-> "StrategyEngine"]
  /\ calc = VWAPCalculator(0)
  /\ ret = NoResult
  /\ prev = NoResult
  /\ now = StartClock
  /\ INSTRUMENT_LIST = 1..NumCold
  /\ feed_bar = 1
  /\ scanner = [i \in 1..NumCold |-> <<>>]
  /\ signals_today = <<>>
  /\ open_positions = {}
  /\ positions = {}
  /\ entry_log = EmptyBag
  /\ last = Idle

NextEvaluate == EngineEvaluate

SpecEvaluate == InitEvaluate /\ [][NextEvaluate]_vars

(* -------------------- breakout_detector.breakout_signal ----------------- *)
\* Prices are integers in hundredths (10130 = 101.30). The drawn closes keep
\* clear of the exact 8% boundary, where the float quotient decides.
min_range_bars == 20

MIN_BREAKOUT_BARS == 40

MaxOf(q) == CHOOSE x \in {q[i] : i \in 1..Len(q)} : \A i \in 1..Len(q) : x >= q[i]

MinOf(q) == CHOOSE x \in {q[i] : i \in 1..Len(q)} : \A i \in 1..Len(q) : x <= q[i]

\* prices[-k:]
LastBars(q, k) == SubSeq(q, Len(q) - k + 1, Len(q))

\* detect_compression with lookback 20 and compression_ratio 0.65
detect_compression(prices) ==
  IF Len(prices) < 2 * 20 THEN FALSE
  ELSE
    LET recent == LastBars(prices, 20)
        previous == SubSeq(prices, Len(prices) - 39, Len(prices) - 20)
        recent_range == MaxOf(recent) - MinOf(recent)
        previous_range == MaxOf(previous) - MinOf(previous)
    IN IF previous_range <= 0 THEN FALSE
       ELSE recent_range * 100 < previous_range * 65

\* the minimum-strength gate left out
WeakPokeIgnored(break_distance, range_span) == FALSE

\* break_distance / range_span < min_break_pct_of_range (0.08), where
\* range_span = max(range_high - range_low, 1e-9)
WeakPoke(break_distance, range_span) ==
  IF range_span = 0 THEN break_distance <= 0
  ELSE break_distance * 100 < 8 * range_span

BreakoutNone == [signal |-> "None"]

\* breakout_signal with the default thresholds. a.atr is the value of
\* compute_atr ({} for None), a.volume_history is {} for None or
\* {[len, spike]} with spike the verdict of volume_spike_confirmed.
breakout_signal(a) ==
  IF a.prices = <<>> \/ Len(a.prices) < MIN_BREAKOUT_BARS THEN BreakoutNone
  ELSE IF a.close_prices = {} THEN [signal |-> "TypeError"]
  ELSE
    LET closes == Val(a.close_prices)
        last_close == closes[Len(closes)]
        prev_close == closes[Len(closes) - 1]
        base == SubSeq(a.prices, Len(a.prices) - min_range_bars, Len(a.prices) - 1)
        range_high == MaxOf(base)
        range_low == MinOf(base)
        range_span == range_high - range_low
        direction == IF last_close > range_high THEN "LONG"
                     ELSE IF last_close < range_low THEN "SHORT" ELSE "None"
        break_distance == IF direction = "LONG" THEN last_close - range_high
                          ELSE range_low - last_close
        move == IF last_close >= prev_close THEN last_close - prev_close
                ELSE prev_close - last_close
        atr_ok == /\ a.high_low_present
                  /\ a.atr # {}
                  /\ Val(a.atr) # 0
                  /\ move >= Val(a.atr)
        volume_ok == /\ a.volume_history # {}
                     /\ Val(a.volume_history).len >= 20
                     /\ Val(a.volume_history).spike
        compression == detect_compression(a.prices)
        follow_through == move * 50 > range_span
    IN IF direction = "None" THEN BreakoutNone
       ELSE IF WeakPoke(break_distance, range_span) THEN BreakoutNone
       ELSE IF ~atr_ok THEN BreakoutNone
       ELSE IF ~volume_ok THEN BreakoutNone
       ELSE [signal |-> "CONFIRMED", direction |-> direction,
             intent_score |-> 300 + (IF compression THEN 50 ELSE 0)
                                  + (IF follow_through THEN 50 ELSE 0),
             range_high |-> range_high, range_low |-> range_low,
             range_span |-> range_span, break_distance |-> break_distance,
             atr |-> a.atr, compression |-> compression,
             follow_through |-> follow_through,
             reason |-> "STRICT_CONFIRMED_" \o direction]

\* n - 1 closed bars and a new close: the last 20 closed bars alternate
\* between lo and hi, the earlier ones between lo - wide and hi + wide
Closes(n, lo, hi, wide, new_close) ==
  [i \in 1..n |->
     IF i = n THEN new_close
     ELSE IF i >= n - min_range_bars
          THEN (IF i % 2 = 0 THEN lo ELSE hi)
          ELSE (IF i % 2 = 0 THEN lo - wide ELSE hi + wide)]

SeriesLengths == {39, 40, 41}

RangeBounds == {<<9900, 10100>>, <<10000, 10000>>}

NewCloses == {9870, 9890, 10000, 10100, 10110, 10130, 10500}

AtrValues == { {}, {0}, {20}, {250} }

VolumeHistories ==
  { {}, {[len |-> 19, spike |-> TRUE]}, {[len |-> 41, spike |-> FALSE]},
    {[len |-> 41, spike |-> TRUE]} }

BreakoutInputs ==
  { [prices |-> Closes(n, r[1], r[2], wide, c),
     close_prices |-> IF closes_given THEN {Closes(n, r[1], r[2], wide, c)} ELSE {},
     high_low_present |-> hl, atr |-> atr, volume_history |-> vh] :
      n \in SeriesLengths, r \in RangeBounds, wide \in {0, 300}, c \in NewCloses,
      closes_given \in BOOLEAN, hl \in BOOLEAN, atr \in AtrValues,
      vh \in VolumeHistories }

Breakout ==
  /\ call.fn = "breakout_signal"
  /\ ret = NoResult
  /\ ret' = breakout_signal(call.args)
  /\ UNCHANGED <<call, calc, now, prev, streamer_vars>>

InitBreakout ==
  /\ \E a \in BreakoutInputs : call = [fn |-> "breakout_signal", args |-> a]
  /\ ret = NoResult
  /\ prev = NoResult
  /\ calc = VWAPCalculator(0)
  /\ now = StartClock
  /\ INSTRUMENT_LIST = 1..NumCold
  /\ feed_bar = 1
  /\ scanner = [i \in 1..NumCold |-> <<>>]
  /\ signals_today = <<>>
  /\ open_positions = {}
  /\ positions = {}
  /\ entry_log = EmptyBag
  /\ last = Idle

NextBreakout == Breakout

SpecBreakout == InitBreakout /\ [][NextBreakout]_vars

(* ------------------------ sr_levels.get_nearest_sr ---------------------- *)
\* Levels and prices are positive integers; a distance is the fraction
\* num/den, compared by cross-multiplication.
max_levels == 2

FracLess(x, y) == x.num * y.den < y.num * x.den

FracEq(x, y) == x.num * y.den = y.num * x.den

\* abs(price - lvl) / max(lvl, 1e-9) for a support,
\* abs(lvl - price) / max(price, 1e-9) for a resistance
SrDist(type, lvl, price) ==
  [num |-> Abs(price - lvl), den |-> IF type = "support" THEN lvl ELSE price]

SrNone == [type |-> "None"]

\* one of the two for-loops: a level replaces best only when strictly nearer
RECURSIVE ScanLevels(_, _, _, _)
ScanLevels(best, type, levels, price) ==
  IF levels = <<>> THEN best
  ELSE
    LET l == Head(levels)
        dist == SrDist(type, l.level, price)
        taken == [type |-> type, level |-> l.level, dist_pct |-> dist,
                  strength |-> l.strength]
    IN ScanLevels(IF best = SrNone \/ FracLess(dist, best.dist_pct)
                  THEN taken ELSE best,
                  type, Tail(levels), price)

\* dist_pct <= max_search_pct, max_search_pct in thousandths
WithinSearch(dist, max_search_pct) == dist.num * 1000 <= max_search_pct * dist.den

\* the default max_search_pct, 0.018
DefaultMaxSearchPct == 18

get_nearest_sr(price, sr_levels, max_search_pct) ==
  LET best == ScanLevels(ScanLevels(SrNone, "support", sr_levels.supports, price),
                         "resistance", sr_levels.resistances, price)
  IN IF best # SrNone /\ WithinSearch(best.dist_pct, max_search_pct) THEN best
     ELSE SrNone

\* clusters carry at least two touches and a strength of at most 5
SrStrengths == {2, 5}

SupportLevelValues == {4000, 4096, 4150}

ResistanceLevelValues == {4170, 4225, 4300}

SrPrices == {4160, 4200}

\* key (-strength, level)
SupportOrder(x, y) ==
  x.strength > y.strength \/ (x.strength = y.strength /\ x.level < y.level)

\* key (-strength, -level)
ResistanceOrder(x, y) ==
  x.strength > y.strength \/ (x.strength = y.strength /\ x.level > y.level)

\* the lists compute_sr_levels returns: at most max_levels clusters of
\* distinct levels, ordered by the sort key of their type
LevelLists(values, type) ==
  LET clusters == [level : values, strength : SrStrengths]
  IN {q \in UNION {[1..n -> clusters] : n \in 0..max_levels} :
        \A i, j \in 1..Len(q) :
          i < j => /\ q[i].level # q[j].level
                   /\ IF type = "support" THEN SupportOrder(q[i], q[j])
                      ELSE ResistanceOrder(q[i], q[j])}

SrInputs ==
  [price : SrPrices,
   sr_levels : [supports : LevelLists(SupportLevelValues, "support"),
                resistances : LevelLists(ResistanceLevelValues, "resistance")]]

NearestSR ==
  /\ call.fn = "get_nearest_sr"
  /\ ret = NoResult
  /\ ret' = get_nearest_sr(call.args.price, call.args.sr_levels, DefaultMaxSearchPct)
  /\ UNCHANGED <<call, calc, now, prev, streamer_vars>>

InitSR ==
  /\ \E a \in SrInputs : call = [fn |-> "get_nearest_sr", args |-> a]
  /\ ret = NoResult
  /\ prev = NoResult
  /\ calc = VWAPCalculator(0)
  /\ now = StartClock
  /\ INSTRUMENT_LIST = 1..NumCold
  /\ feed_bar = 1
  /\ scanner = [i \in 1..NumCold |-> <<>>]
  /\ signals_today = <<>>
  /\ open_positions = {}
  /\ positions = {}
  /\ entry_log = EmptyBag
  /\ last = Idle

NextSR == NearestSR

SpecSR == InitSR /\ [][NextSR]_vars

(* ------------------ pullback_detector.detect_pullback_signal ------------ *)
\* Prices are positive integers, volume scores and score components are in
\* hundredths (150 = 1.5), and the total score is the fraction num/den of
\* hundredths, den being the denominator of the level distance.
MIN_PULLBACK_BARS == 45

\* max_proximity, 0.015, in thousandths
max_proximity == 15

\* price_action.rejection_info: the rejection type and whether the score,
\* rounded to three decimals, exceeds 0.4 (score = (rel - 0.15) / 0.5)
rejection_info(open_p, high, low, close) ==
  LET body == Abs(close - open_p)
      total == high - low
      top == IF close >= open_p THEN close ELSE open_p
      bottom == IF close <= open_p THEN close ELSE open_p
      upper == IF high - top > 0 THEN high - top ELSE 0
      lower == IF bottom - low > 0 THEN bottom - low ELSE 0
      Over(wick, pct) == IF total <= 0 THEN wick > 0
                         ELSE wick * 100000 >= pct * total
      Types == IF lower > 2 * body /\ (total <= 0 \/ lower * 100 > 15 * total)
                 THEN <<"BULLISH", Over(lower, 35025)>>
               ELSE IF upper > 2 * body /\ (total <= 0 \/ upper * 100 > 15 * total)
                 THEN <<"BEARISH", Over(upper, 35025)>>
               ELSE <<"None", FALSE>>
  IN [rejection_type |-> Types[1], strong |-> Types[2]]

\* volume_filter.analyze_volume with lookback 20 and rising_bars 4
analyze_volume(volume_history, close_prices) ==
  IF volume_history = <<>> \/ Len(volume_history) < 20 + 4
  THEN [score |-> 0, strength |-> "NONE", trend |-> "FLAT"]
  ELSE
    LET total20 == SumSeq(LastBars(volume_history, 20))
        current_volume == volume_history[Len(volume_history)]
        \* rel >= m / 10, rel = current_volume / (total20 / 20), 1.0 without average
        RelAtLeast(m) == IF total20 > 0 THEN current_volume * 200 >= m * total20
                         ELSE 10 >= m
        strength == IF RelAtLeast(20) THEN "STRONG"
                    ELSE IF RelAtLeast(16) THEN "MODERATE"
                    ELSE IF RelAtLeast(11) THEN "WEAK" ELSE "NONE"
        base == IF strength = "STRONG" THEN 200
                ELSE IF strength = "MODERATE" THEN 90
                ELSE IF strength = "WEAK" THEN 10 ELSE -80
        last_n == LastBars(volume_history, 4)
        trend == IF \A i \in 2..4 : last_n[i] > last_n[i - 1] THEN "RISING"
                 ELSE IF \A i \in 2..4 : last_n[i] < last_n[i - 1] THEN "FALLING"
                 ELSE "FLAT"
        trended == base + (IF trend = "RISING" THEN 60
                           ELSE IF trend = "FALLING" THEN -60 ELSE -20)
        confirmed ==
          IF close_prices # <<>> /\ Len(close_prices) >= 4
          THEN LET last_close == close_prices[Len(close_prices)]
                   price_move == last_close - close_prices[Len(close_prices) - 3]
               IN IF Abs(price_move) * 10000 < 25 * last_close
                  THEN (IF strength \in {"STRONG", "MODERATE"} THEN trended - 100
                        ELSE trended)
                  ELSE (IF strength = "STRONG" THEN trended + 50 ELSE trended)
          ELSE trended
        final_score == IF confirmed > 200 THEN 200
                       ELSE IF confirmed < -200 THEN -200 ELSE confirmed
    IN [score |-> final_score, strength |-> strength, trend |-> trend]

\* the volume floor left out
VolumeTooWeakNoFloor(score) == FALSE

\* vol_ctx.score < 1.0
VolumeTooWeak(score) == score < 100

\* round(total_score, 2) of a fraction of hundredths
RoundFrac(x) == (2 * x.num + x.den) \div (2 * x.den)

\* detect_pullback_signal with the default max_proximity and min_bars.
\* a.sr_levels is what compute_sr_levels(highs, lows) returns, a.atr the value
\* of compute_atr ({} for None), a.volatility the state analyze_volatility
\* reports. exit names the return statement taken.
detect_pullback_signal(a) ==
  LET Absent(exit) == [exit |-> exit, value |-> PullbackNone,
                       total_score |-> [num |-> 0, den |-> 1]]
  IN
  IF Len(a.prices) < MIN_PULLBACK_BARS THEN Absent("min_bars")
  ELSE IF a.closes = {} THEN Absent("TypeError")
  ELSE IF Len(Val(a.closes)) < 8 THEN Absent("IndexError")
  ELSE
    LET closes == Val(a.closes)
        n == Len(closes)
        last_price == closes[n]
        nearest == get_nearest_sr(last_price, a.sr_levels, max_proximity)
        trade_direction ==
          IF nearest = SrNone THEN "None"
          ELSE IF nearest.type = "support" /\ a.htf_direction = "BULLISH" THEN "LONG"
          ELSE IF nearest.type = "resistance" /\ a.htf_direction = "BEARISH"
            THEN "SHORT"
          ELSE "None"
        recent_move == Abs(closes[n] - closes[n - 7])
        last_bar_rejection == rejection_info(closes[n - 1], a.high, a.low, closes[n])
        before == SubSeq(closes, n - 3, n - 1)
        price_reaction ==
          IF trade_direction = "LONG"
          THEN \/ (last_bar_rejection.rejection_type = "BULLISH"
                     /\ last_bar_rejection.strong)
               \/ closes[n] > MaxOf(before)
          ELSE \/ (last_bar_rejection.rejection_type = "BEARISH"
                     /\ last_bar_rejection.strong)
               \/ closes[n] < MinOf(before)
        vol_ctx == analyze_volume(a.volumes, closes)
        short_term_trend == closes[n] - closes[n - 5]
    IN IF nearest = SrNone THEN Absent("location")
       ELSE IF nearest.strength < 2 THEN Absent("location")
       ELSE IF trade_direction = "None" THEN Absent("location")
       ELSE IF a.atr = {} \/ Val(a.atr) = 0 THEN Absent("extension")
       ELSE IF recent_move * 10 > Val(a.atr) * 14 THEN Absent("extension")
       ELSE IF a.volatility # "EXPANDING" THEN Absent("volatility")
       ELSE IF ~price_reaction THEN Absent("price_reaction")
       ELSE IF VolumeTooWeak(vol_ctx.score) THEN Absent("volume")
       ELSE IF trade_direction = "LONG" /\ short_term_trend <= 0
         THEN Absent("momentum")
       ELSE IF trade_direction = "SHORT" /\ short_term_trend >= 0
         THEN Absent("momentum")
       ELSE
         LET dist == nearest.dist_pct
             \* (max_proximity - dist_pct) * 80, in hundredths times dist.den
             proximity == (max_proximity * dist.den - 1000 * dist.num) * 8
             floored == IF proximity > 0 THEN proximity ELSE 0
             location == IF floored > 250 * dist.den THEN 250 * dist.den ELSE floored
             volume == IF vol_ctx.score > 200 THEN 200 ELSE vol_ctx.score
             total_score == [num |-> location + (200 + volume + 150 + 150) * dist.den,
                             den |-> dist.den]
             signal == IF total_score.num >= 650 * dist.den THEN "CONFIRMED"
                       ELSE IF total_score.num >= 450 * dist.den THEN "POTENTIAL"
                       ELSE "None"
         IN IF signal = "None"
            THEN [exit |-> "score", value |-> PullbackNone, total_score |-> total_score]
            ELSE [exit |-> "returned",
                  value |-> [signal |-> signal, direction |-> trade_direction,
                             score |-> RoundFrac(total_score),
                             nearest_level |-> nearest,
                             components |->
                               [location |-> [num |-> location, den |-> dist.den],
                                price_action |-> 200, volume |-> volume,
                                volatility |-> 150, momentum |-> 150],
                             context |-> [volatility |-> a.volatility,
                                          volume |-> vol_ctx.strength,
                                          rejection |->
                                            last_bar_rejection.rejection_type],
                             reason |-> signal \o "_" \o trade_direction],
                  total_score |-> total_score]

\* n bars ending in tail, the earlier ones repeating its first value
WithTail(n, tail) ==
  [i \in 1..n |-> IF i > n - Len(tail) THEN tail[i - (n - Len(tail))] ELSE tail[1]]

PullbackLengths == {44, 45}

\* the last eight closes: a rally, a drift, a sell-off and a stall, all
\* ending at 4150
CloseTails ==
  { <<4120, 4125, 4122, 4128, 4130, 4135, 4140, 4150>>,
    <<4146, 4147, 4146, 4147, 4146, 4148, 4149, 4150>>,
    <<4180, 4175, 4178, 4172, 4170, 4165, 4160, 4150>>,
    <<4150, 4150, 4149, 4149, 4152, 4151, 4151, 4150>> }

\* high and low of the last bar
LastBarExtremes == {<<4152, 4140>>, <<4162, 4149>>}

\* the last four volumes; the earlier bars repeat the first of them
VolumeTails ==
  { <<100, 150, 200, 400>>, <<100, 120, 150, 200>>, <<100, 300, 200, 400>>,
    <<900, 800, 700, 690>>, <<400, 300, 250, 200>>, <<100, 100, 100, 100>> }

\* values of compute_atr: None, a small and a large one
AtrReadings == { {}, {5}, {25} }

PullbackSrLevels ==
  [supports : {q \in LevelLists({4100, 4150}, "support") : Len(q) <= 1},
   resistances : {q \in LevelLists({4170, 4200}, "resistance") : Len(q) <= 1}]

PullbackDetect ==
  /\ call.fn = "detect_pullback_signal"
  /\ ret = NoResult
  /\ ret' = detect_pullback_signal(call.args)
  /\ UNCHANGED <<call, calc, now, prev, streamer_vars>>

InitPullback ==
  /\ \E n \in PullbackLengths, tail \in CloseTails, closes_given \in BOOLEAN,
        bar \in LastBarExtremes, vt \in VolumeTails, sr \in PullbackSrLevels,
        htf \in {"BULLISH", "BEARISH"}, atr \in AtrReadings,
        vs \in {"EXPANDING", "NORMAL"} :
       call = [fn |-> "detect_pullback_signal",
               args |-> [prices |-> WithTail(n, tail),
                         closes |-> IF closes_given THEN {WithTail(n, tail)} ELSE {},
                         high |-> bar[1], low |-> bar[2],
                         volumes |-> WithTail(n, vt), sr_levels |-> sr,
                         htf_direction |-> htf, atr |-> atr, volatility |-> vs]]
  /\ ret = NoResult
  /\ prev = NoResult
  /\ calc = VWAPCalculator(0)
  /\ now = StartClock
  /\ INSTRUMENT_LIST = 1..NumCold
  /\ feed_bar = 1
  /\ scanner = [i \in 1..NumCold |-> <<>>]
  /\ signals_today = <<>>
  /\ open_positions = {}
  /\ positions = {}
  /\ entry_log = EmptyBag
  /\ last = Idle

NextPullback == PullbackDetect

SpecPullback == InitPullback /\ [][NextPullback]_vars

(* ------------------------------- claims -------------------------------- *)
RECURSIVE SumCopies(_, _)
SumCopies(B, S) ==
  IF S = {} THEN 0
  ELSE LET x == CHOOSE y \in S : TRUE
       IN B[x] + SumCopies(B, S \ {x})

\* number of handle_entry calls made on date d
EntriesOn(d) == SumCopies(entry_log, { r \in DOMAIN entry_log : r.date = d })

\* number of handle_entry calls made for instrument i on date d
EntriesFor(d, i) ==
  SumCopies(entry_log, { r \in DOMAIN entry_log : r.date = d /\ r.inst = i })

\* number of handle_entry calls made for instrument i while the feed carried bar b
EntriesForBar(i, b) ==
  SumCopies(entry_log, { r \in DOMAIN entry_log : r.inst = i /\ r.bar = b })

SignalledToday ==
  IF now.date \in DOMAIN signals_today THEN signals_today[now.date] ELSE {}

CandidateKeys(l) == { l.candidates[k].inst : k \in 1..Len(l.candidates) }

ScoreOf(l, i) ==
  LET k == CHOOSE j \in 1..Len(l.candidates) : l.candidates[j].inst = i
  IN l.candidates[k].score

\* the session windows in which no entry may be taken
InExcludedWindow(hour, minute) ==
  \/ (hour = 9 /\ minute <= 29)
  \/ hour \in {12, 13}
  \/ hour >= 15

\* C1: after any sequence of tick batches the open-position set holds at most
\* MAX_CONCURRENT_TRADES instrument keys.
C1_ConcurrencyCap == Cardinality(open_positions) <= MAX_CONCURRENT_TRADES

\* the cap is met and the latest batch left a collected candidate unadmitted
C1_Witness ==
  /\ Cardinality(open_positions) = MAX_CONCURRENT_TRADES
  /\ last.entries # <<>>
  /\ \E i \in CandidateKeys(last) : i \notin open_positions

C3_OncePerDay ==
  \A d \in 1..MaxDate : \A i \in INSTRUMENT_LIST : EntriesFor(d, i) <= 1

\* an instrument admitted earlier today gave an EXECUTE signal again and was
\* neither collected nor admitted
C3_Witness ==
  /\ last.exits = 1
  /\ \E i \in last.executes :
       /\ EntriesFor(now.date, i) = 1
       /\ i \in SignalledToday
       /\ i \notin CandidateKeys(last)
  /\ last.entries = <<>>

\* C4: every tick batch delivered to on_message leads to exactly one call of
\* handle_exits, whatever the time of the batch and the size of the ledger.
C4_ExitsEveryBatch == last.handled => last.exits = 1

\* C5: an instrument key is in the open-position set exactly while its
\* position is open: it enters on admission and leaves when the position is
\* exited, which frees a slot under the concurrent-position cap.
C5_ExitFreesSlot == open_positions = positions

\* C6: an instrument is admitted only if, immediately before, it is absent
\* from today's ledger and from the open-position set.
C6_AdmittedOnlyIfAbsent ==
  [][\A k \in 1..Len(last'.entries) :
        /\ last'.entries[k] \notin open_positions
        /\ (now'.date \in DOMAIN signals_today
              => last'.entries[k] \notin signals_today[now'.date])]_vars

\* C7: processing the same bar of an instrument twice never yields a second
\* admitted signal for that instrument.
C7_OneAdmissionPerBar ==
  \A i \in INSTRUMENT_LIST : \A b \in 1..NumBars : EntriesForBar(i, b) <= 1

\* C8: when two successive batches carry the same closed bar for an
\* instrument, the second occurrence is skipped: no second scanner.update and
\* no second evaluation of that bar.
C8_SameBarSkipped ==
  [][\A i \in last.evaluated : feed_bar' = feed_bar => i \notin last'.evaluated]_vars

\* C9: within one batch the candidates are admitted best score first up to
\* the first cap hit: no admitted candidate scores below an unadmitted one,
\* admissions stop only at a cap, and every admission is in the daily ledger
\* and in the open-position set.
C9_BestFirst ==
  LET admitted == { last.entries[k] : k \in 1..Len(last.entries) }
      refused == CandidateKeys(last) \ admitted
  IN /\ admitted \subseteq CandidateKeys(last)
     /\ \A k \in 1..Len(last.entries) : \A j \in 1..Len(last.entries) :
          k < j => ScoreOf(last, last.entries[k]) >= ScoreOf(last, last.entries[j])
     /\ \A a \in admitted : \A r \in refused : ScoreOf(last, a) >= ScoreOf(last, r)
     /\ refused # {} =>
          \/ Cardinality(SignalledToday) >= MAX_TRADES_PER_DAY
          \/ Cardinality(open_positions) >= MAX_CONCURRENT_TRADES
     /\ admitted \subseteq SignalledToday
     /\ admitted \subseteq open_positions

\* the better candidate came later in the feed and took the last slot
C9_Witness ==
  /\ Len(last.candidates) = 2
  /\ last.candidates[1].score < last.candidates[2].score
  /\ last.entries = <<last.candidates[2].inst>>

\* C10: a batch whose time falls in an excluded session window evaluates no
\* instrument and admits nothing: rolling state, ledger and open-position set
\* are unchanged and handle_entry is not called.
C10_ExcludedWindowIdle ==
  [][InExcludedWindow(now'.hour, now'.minute) =>
        /\ scanner' = scanner
        /\ signals_today' = signals_today
        /\ open_positions' = open_positions
        /\ entry_log' = entry_log
        /\ last'.evaluated = {}
        /\ last'.entries = <<>>]_vars

\* a batch in an excluded window arrived after bars and an admission
C10_Witness ==
  /\ last.handled
  /\ InExcludedWindow(now.hour, now.minute)
  /\ open_positions # {}
  /\ \E i \in INSTRUMENT_LIST : Len(scanner[i]) = MaxLen

DecisionStates ==
  {"IGNORE", "PREPARE_LONG", "PREPARE_SHORT", "EXECUTE_LONG", "EXECUTE_SHORT"}

\* the invocation passed every gate of final_trade_decision
AllGatesPassed ==
  /\ ret # NoResult
  /\ ret.reason \in {"institutional continuation trade", "developing strong setup",
                     "edge insufficient"}

\* C12: every invocation of final_trade_decision returns a DecisionResult
\* whose score lies in [0, 10] and whose state is IGNORE, PREPARE_LONG,
\* PREPARE_SHORT, EXECUTE_LONG or EXECUTE_SHORT.
C12_ValidResult ==
  ret # NoResult =>
    /\ DOMAIN ret = {"state", "score", "direction", "components", "reason"}
    /\ 0 <= ret.score /\ ret.score <= 1000
    /\ ret.state \in DecisionStates

\* every gate passed and the raw sum, above 10, was clamped
C12_Witness ==
  /\ AllGatesPassed
  /\ ret.score = 1000
  /\ ret.components["volume"] + ret.components["volatility"]
       + ret.components["liquidity"] > 30000

\* C13: every DecisionResult, the IGNORE of a gate abort included, carries a
\* reason string and the score contributions of the gates passed before it
\* was produced (the structure contribution once the pullback is CONFIRMED).
C13_BreakdownAlwaysReturned ==
  ret # NoResult =>
    /\ ret.reason # ""
    /\ call.args.pullback_signal.signal = "CONFIRMED" =>
         /\ "structure" \in DOMAIN ret.components
         /\ ret.components["structure"] = 35000

\* C14: when every gate passes, with final score s and signal direction d,
\* the state is EXECUTE_d iff s >= 7.5, PREPARE_d iff 6.0 <= s < 7.5, and
\* IGNORE with no direction iff s < 6.0.
C14_Classification ==
  AllGatesPassed =>
    LET s == ret.score
        d == call.args.pullback_signal.direction
    IN /\ (ret.state = StateName("EXECUTE", d) /\ ret.direction = d) <=> s >= 750
       /\ (ret.state = StateName("PREPARE", d) /\ ret.direction = d)
            <=> (600 <= s /\ s < 750)
       /\ (ret.state = "IGNORE" /\ ret.direction = "None") <=> s < 600

\* every gate passed and the score fell between 5.0 and 6.0
C14_Witness ==
  /\ AllGatesPassed
  /\ 500 <= ret.score /\ ret.score < 600
  /\ ret.state = "IGNORE"

C16_FreshAfterRestart ==
  last = Idle =>
    /\ \A d \in DOMAIN signals_today : signals_today[d] = {}
    /\ open_positions = {}
    /\ \A i \in INSTRUMENT_LIST : scanner[i] = <<>>

\* C17: with a defined VWAP, get_context classifies by the distance of the
\* price from the VWAP and the slope sign: |distance| <= 0.35% gives NEAR,
\* NEUTRAL, -1.0 for any slope; ABOVE (distance > 0.35%) with slope > 0 gives
\* BUYING, +1.8; BELOW with slope < 0 gives SELLING, -1.8; ABOVE or BELOW
\* without an aligned slope gives NEUTRAL, -0.8; the score lies in [-2, 2].
C17_VwapClassification ==
  (call.fn = "get_context" /\ calc.volume_sum > 0 /\ call.args.price # {}) =>
    LET scaled == (Val(call.args.price) * calc.volume_sum - calc.price_volume_sum)
                    * 10000
        limit == 35 * calc.price_volume_sum
        above == scaled > limit
        below == scaled < -limit
        slope == SlopeSign(calc.vwap_history)
    IN /\ (~above /\ ~below) =>
            (ret.acceptance = "NEAR" /\ ret.pressure = "NEUTRAL" /\ ret.score = -10000)
       /\ (above /\ slope > 0) =>
            (ret.acceptance = "ABOVE" /\ ret.pressure = "BUYING" /\ ret.score = 18000)
       /\ (below /\ slope < 0) =>
            (ret.acceptance = "BELOW" /\ ret.pressure = "SELLING" /\ ret.score = -18000)
       /\ (above /\ slope <= 0) =>
            (ret.acceptance = "ABOVE" /\ ret.pressure = "NEUTRAL" /\ ret.score = -8000)
       /\ (below /\ slope >= 0) =>
            (ret.acceptance = "BELOW" /\ ret.pressure = "NEUTRAL" /\ ret.score = -8000)
       /\ -20000 <= ret.score /\ ret.score <= 20000

\* C18: update called with a missing price, a missing volume or a volume
\* <= 0 returns None and leaves the accumulators, the window deques and the
\* VWAP history unchanged.
C18_RejectedUpdateNoEffect ==
  [][(call'.fn = "update"
        /\ (\/ call'.args.price = {}
            \/ call'.args.volume = {}
            \/ Val(call'.args.volume) <= 0)) =>
       (calc' = calc /\ ret'.value = {})]_vars

\* a calculator holding data rejected an update with a non-positive volume
C18_Witness ==
  /\ call.fn = "update"
  /\ call.args.price # {}
  /\ call.args.volume \in {{0}, {-1}}
  /\ calc.volume_sum > 0
  /\ calc.vwap_history # <<>>
  /\ ret.value = {}

\* the claim's setup: at least 40 closes, the last 20 closed bars spanning
\* exactly [99, 101], and breakout_signal has returned
C19_Setup ==
  /\ call.fn = "breakout_signal"
  /\ ret # NoResult
  /\ Len(call.args.prices) >= 40
  /\ call.args.close_prices = {call.args.prices}
  /\ LET base == SubSeq(call.args.prices, Len(call.args.prices) - 20,
                        Len(call.args.prices) - 1)
     IN MinOf(base) = 9900 /\ MaxOf(base) = 10100

\* C19 as stated: in that setup a new close of 101.3 returns None.
C19_WeakPokeAt101_3 ==
  (C19_Setup /\ call.args.prices[Len(call.args.prices)] = 10130) =>
    ret = BreakoutNone

\* C19: in that setup a new close above 101 whose break distance is below 8%
\* of the range span of 2 (below 101.16, such as 101.1) returns None whatever
\* the ATR and the volumes are.
C19_WeakPokeRejected ==
  LET new_close == call.args.prices[Len(call.args.prices)]
  IN (C19_Setup /\ new_close > 10100 /\ (new_close - 10100) * 100 < 8 * 200) =>
       ret = BreakoutNone

\* a close of 101.1 was rejected although the move exceeded the ATR and the
\* volume spiked
C19_Witness ==
  /\ C19_Setup
  /\ call.args.prices[Len(call.args.prices)] = 10110
  /\ call.args.prices[Len(call.args.prices) - 1] = 9900
  /\ call.args.high_low_present
  /\ call.args.atr = {20}
  /\ call.args.volume_history = {[len |-> 41, spike |-> TRUE]}
  /\ ret = BreakoutNone

\* C20: when several candidate levels (supports and/or resistances) lie at
\* the same minimal distance from the price, within max_search_pct, the
\* level get_nearest_sr returns has the highest strength among them.
C20_TieGoesToStrongest ==
  (call.fn = "get_nearest_sr" /\ ret # NoResult /\ ret # SrNone) =>
    LET sr == call.args.sr_levels
        candidates ==
          {[type |-> "support", level |-> sr.supports[i].level,
            strength |-> sr.supports[i].strength] : i \in 1..Len(sr.supports)}
          \cup
          {[type |-> "resistance", level |-> sr.resistances[i].level,
            strength |-> sr.resistances[i].strength] :
             i \in 1..Len(sr.resistances)}
    IN \A c \in candidates :
         FracEq(SrDist(c.type, c.level, call.args.price), ret.dist_pct)
           => c.strength <= ret.strength

\* C22: whenever handle_exits is invoked for a batch, the current-prices map
\* handed to it holds the LTP of every instrument of the batch whose LTP
\* parses as a number, also when the open-position set is at the
\* concurrent-trade cap.
C22_ExitsSeeEveryParsedLtp ==
  last.exits = 1 => last.ltp_parsed \subseteq last.current_prices

\* C21: insufficient history is an absent result, never an exception:
\* breakout_signal returns None whenever a series it reads (prices, closes,
\* highs, lows, volumes) is absent or shorter than its 40-bar minimum.
C21_InsufficientHistoryIsNone ==
  (/\ call.fn = "breakout_signal"
   /\ ret # NoResult
   /\ \/ Len(call.args.prices) < MIN_BREAKOUT_BARS
      \/ call.args.close_prices = {}
      \/ ~call.args.high_low_present
      \/ call.args.volume_history = {}
      \/ Val(call.args.volume_history).len < MIN_BREAKOUT_BARS)
    => ret = BreakoutNone

\* detect_pullback_signal has returned past all six gates
C23_AllGatesPassed ==
  /\ call.fn = "detect_pullback_signal"
  /\ ret # NoResult
  /\ ret.exit \in {"score", "returned"}

\* C23: every input of detect_pullback_signal that passes all gates gets a
\* total score in [6.0, 8.2]; the reject-by-score branch is not taken, the
\* result is CONFIRMED iff total >= 6.5 and POTENTIAL iff 6.0 <= total < 6.5.
C23_TotalScoreRange ==
  C23_AllGatesPassed =>
    LET t == ret.total_score
    IN /\ 600 * t.den <= t.num /\ t.num <= 820 * t.den
       /\ ret.exit = "returned"
       /\ ret.value.signal = "CONFIRMED" <=> t.num >= 650 * t.den
       /\ ret.value.signal = "POTENTIAL" <=>
            (600 * t.den <= t.num /\ t.num < 650 * t.den)

\* a pullback at the level itself with the strongest volume scored 8.2
C23_Witness ==
  /\ C23_AllGatesPassed
  /\ ret.value.signal = "CONFIRMED"
  /\ ret.total_score.num = 820 * ret.total_score.den
  /\ ret.value.nearest_level.dist_pct.num = 0

\* C24: the VWAP accumulators of an instrument change at most once per
\* evaluate call, by one update with the tick's price and volume, and only in
\* a call that has passed the time filter, the data-sufficiency check, all
\* MTF gates and the TRENDING regime gate; a tick rejected earlier leaves the
\* VWAP state unchanged.
C24_VwapChangesOnlyPastGates ==
  [][call'.fn = "evaluate" =>
       LET a == call'.args
       IN /\ calc' \in {calc, update(calc, {a.ltp}, {a.volume}).calc}
          /\ calc' # calc =>
               /\ ~(now'.hour = 9 /\ now'.minute < 30)
               /\ ~(12 <= now'.hour /\ now'.hour <= 13)
               /\ Len(a.series) >= MinBars
               /\ a.mtf_ctx.direction # "NEUTRAL"
               /\ ~a.mtf_ctx.conflict
               /\ a.mtf_ctx.confidence # "LOW"
               /\ a.mtf_ctx.strength >= 100
               /\ a.regime = "TRENDING"]_vars

\* a tick was rejected by the regime gate on a calculator that earlier
\* calls had fed
C24_Witness ==
  /\ call.fn = "evaluate"
  /\ ret.stage = "regime"
  /\ call.args.volume > 0
  /\ Len(calc.vwap_history) >= 2

====
